---- MODULE Spec2Model ----
(***************************************************************************)
(* athenaq: one invocation of main (src/main.go:263-322).                  *)
(*                                                                         *)
(* main resolves the account, ensures the Athena result bucket exists,     *)
(* reads the query, submits it (StartQueryExecution), polls it on a 500 ms *)
(* ticker (GetQueryExecution) until a terminal state or until the context  *)
(* is done, then reads the result object from S3 and prints it.            *)
(*                                                                         *)
(* The AWS services, the ticker and the context deadline are the           *)
(* environment.  A remote call made with a context is split in two steps,  *)
(* the call and its return, so that the deadline can fire while the call   *)
(* is in flight; a call that returns while the context is done returns     *)
(* the SDK's cancellation error.                                           *)
(*                                                                         *)
(* Optional values (Go pointers that may be nil) are sequences of length   *)
(* at most one: <<>> is nil, <<x>> is a pointer to x.                      *)
(***************************************************************************)
EXTENDS Integers, Sequences, FiniteSets, TLC

VARIABLES
    pc,            \* position of main / executeQuery
    athenaS3Path,  \* main.athenaS3Path: the rendered -temp.path
    bucketOwner,   \* S3: who owns the bucket named by athenaS3Path
    ctxDone,       \* ctx.Done() is closed (the -timeout deadline has fired)
    tickReady,     \* a tick is buffered in t.C
    trace,         \* the SDK calls, their returns and the deadline, in order
    job,           \* Athena: the query execution created by Submit, if any
    startId,       \* startQueryExecutionOut.QueryExecutionId
    qe,            \* getQueryExecutionOut.QueryExecution of the last poll
    err,           \* the error main received, if any
    data,          \* main.data: the bytes getS3Contents returned
    stdout,        \* bytes printed to standard output
    stderr,        \* what main printed to standard error, if anything
    exitCode,      \* -1 while running, else the process's exit code
    sql,           \* main.sql: the statements read from standard input
    fetchResult    \* whether the caller asked for the result to be output

vars == <<pc, athenaS3Path, bucketOwner, ctxDone, tickReady, trace, job,
          startId, qe, err, data, stdout, stderr, exitCode, sql, fetchResult>>

----------------------------------------------------------------------------
(* Bounds *)

\* The largest number of GetQueryExecution calls explored.
MaxPolls == 3

\* The largest number of CreateBucketIfNotExists calls explored for one path.
MaxEnsures == 3

----------------------------------------------------------------------------
(* Values *)

\* A URL as url.Parse splits it: scheme, host and path (a sequence of
\* characters).
EmptyURL == [scheme |-> "", host |-> "", path |-> <<>>]

\* Values the -temp.path flag may render to.
Paths ==
    { [scheme |-> "s3",   host |-> "tmp", path |-> <<"/", "u">>],
      [scheme |-> "s3",   host |-> "tmp", path |-> <<>>],
      [scheme |-> "file", host |-> "",    path |-> <<"/", "u">>],
      EmptyURL }

\* Result locations the service may report: S3 URLs below or beside the
\* submitted output path.
Locations ==
    { [scheme |-> "s3", host |-> "tmp", path |-> <<"/", "u", "/", "r">>],
      [scheme |-> "s3", host |-> "res", path |-> <<"/", "/", "r">>] }

JobIds == {"q1", "q2"}

Reasons == {"SYNTAX_ERROR: line 1", "Query cancelled by user"}

\* Contents of a result object.
Datas == {"", "a,b\n1,2\n"}

Terminal == {"SUCCEEDED", "FAILED", "CANCELLED"}

\* States the service reports for an unfinished execution; "PAUSED" stands
\* for any value the program does not know.
NonTerminal == {"QUEUED", "RUNNING", "PAUSED"}

\* What standard input may hold: one statement, or two separated by ";".
\* main does not split its input.
Inputs == { <<"select 1">>, <<"select 1", "select 2">> }

\* main: query := execTemplate(string(sql), values), for input without
\* template actions: the text as read.
Query == sql

----------------------------------------------------------------------------
(* s3path.Parse *)

RECURSIVE TrimLeftSlash(_)
TrimLeftSlash(s) ==
    IF s # <<>> /\ Head(s) = "/" THEN TrimLeftSlash(Tail(s)) ELSE s

\* s3path.Parse: <<>> on error, else <<[Bucket, Key]>>.
Parse(u) ==
    IF u = EmptyURL THEN <<>>
    ELSE IF u.scheme # "s3" THEN <<>>
    ELSE << [Bucket |-> u.host, Key |-> TrimLeftSlash(u.path)] >>

----------------------------------------------------------------------------
(* Helpers *)

\* Events of the trace.  A return carries the call's error (<<>> when it
\* succeeded) and its output; the deadline carries the position of main at
\* the moment it fired.
CallEv(svc, op, arg) == [ev |-> "call", svc |-> svc, op |-> op, arg |-> arg]
RetEv(svc, op, e, out) == [ev |-> "ret", svc |-> svc, op |-> op, err |-> e, out |-> out]
DeadlineEv == [ev |-> "deadline", at |-> pc]

IsCall(i, op) == trace[i].ev = "call" /\ trace[i].op = op
IsRet(i, op) == trace[i].ev = "ret" /\ trace[i].op = op

CallsOf(op) == { i \in 1..Len(trace) : IsCall(i, op) }

NumCalls(op) == Cardinality(CallsOf(op))

Error(msg, cause) == [msg |-> msg, cause |-> cause]

\* Mutant: the error is printed and main goes on to submit what is left.
Exit1Continue(prefix, e) ==
    /\ err' = <<e>>
    /\ stderr' = <<[prefix |-> prefix, err |-> e]>>
    /\ exitCode' = exitCode
    /\ pc' = "start"

\* Mutant: the error is printed but the process ends with status 0.
Exit1Zero(prefix, e) ==
    /\ err' = <<e>>
    /\ stderr' = <<[prefix |-> prefix, err |-> e]>>
    /\ exitCode' = 0
    /\ pc' = "done"

\* fmt.Fprintf(os.Stderr, ...); os.Exit(1)
Exit1(prefix, e) ==
    /\ err' = <<e>>
    /\ stderr' = <<[prefix |-> prefix, err |-> e]>>
    /\ exitCode' = 1
    /\ pc' = "done"

\* A nil pointer dereference: the runtime panics and the process exits 2.
Panic ==
    /\ stderr' = <<[prefix |-> "panic", err |-> Error("nil pointer dereference", "")]>>
    /\ exitCode' = 2
    /\ pc' = "done"
    /\ UNCHANGED err

----------------------------------------------------------------------------
Init ==
    /\ pc = "accountID"
    /\ athenaS3Path \in Paths
    /\ bucketOwner \in {"none", "me", "other"}
    /\ ctxDone = FALSE
    /\ tickReady = FALSE
    /\ trace = <<>>
    /\ job = <<>>
    /\ startId = <<>>
    /\ qe = <<>>
    /\ err = <<>>
    /\ data = <<>>
    /\ stdout = ""
    /\ stderr = <<>>
    /\ exitCode = -1
    /\ sql = <<>>
    /\ fetchResult = TRUE

\* main: awsCli.AccountID()
AccountID ==
    /\ pc = "accountID"
    /\ \E e \in {<<>>, <<"Transport">>} :
         /\ trace' = trace \o << CallEv("sts", "GetCallerIdentity", ""),
                                 RetEv("sts", "GetCallerIdentity", e, "") >>
         /\ IF e = <<>>
            THEN /\ pc' = "createBucket"
                 /\ UNCHANGED <<err, stderr, exitCode>>
            ELSE Exit1("could not retrieve account ID", Error("sts", e[1]))
    /\ UNCHANGED <<athenaS3Path, bucketOwner, ctxDone, tickReady, job,
                   startId, qe, data, stdout>>
    /\ UNCHANGED <<sql, fetchResult>>

----------------------------------------------------------------------------
(* CreateBucketIfNotExists *)

AwsErr(code) == [aws |-> TRUE, code |-> code]

\* What s3.CreateBucket can answer for a bucket in the given ownership:
\* <<>> is success, <<e>> the error e.
CreateBucketOutcomes(owner) ==
    {<<AwsErr("AccessDenied")>>, <<[aws |-> FALSE, code |-> "Transport"]>>}
    \cup (CASE owner = "none"  -> {<<>>}
            [] owner = "me"    -> {<<AwsErr("BucketAlreadyOwnedByYou")>>}
            [] owner = "other" -> {<<AwsErr("BucketAlreadyExists")>>})

\* Mutant: only a bucket the caller owns counts as existing.
BucketResultOwnedOnly(e) ==
    IF e = <<>> THEN <<>>
    ELSE IF e[1].aws /\ e[1].code = "BucketAlreadyOwnedByYou"
         THEN <<>>
         ELSE e

\* Mutant: every error of s3.CreateBucket is returned.
BucketResultStrict(e) == e

\* The error CreateBucketIfNotExists returns for the error of s3.CreateBucket.
BucketResult(e) ==
    IF e = <<>> THEN <<>>
    ELSE IF e[1].aws /\ e[1].code \in {"BucketAlreadyExists", "BucketAlreadyOwnedByYou"}
         THEN <<>>
         ELSE e

\* main: err = awsCli.CreateBucketIfNotExists(athenaS3Path, *awsRegion)
CreateBucketIfNotExists ==
    /\ pc = "createBucket"
    /\ IF Parse(athenaS3Path) = <<>>
       THEN /\ Exit1("could not create athena temp bucket", Error("s3path", "Parse"))
            /\ UNCHANGED <<trace, bucketOwner>>
       ELSE \E e \in CreateBucketOutcomes(bucketOwner) :
              /\ trace' = trace \o
                    << CallEv("s3", "CreateBucket", Parse(athenaS3Path)[1].Bucket),
                       RetEv("s3", "CreateBucket", e, "") >>
              /\ bucketOwner' = IF e = <<>> THEN "me" ELSE bucketOwner
              /\ IF BucketResult(e) = <<>>
                 THEN /\ pc' = "readStdin"
                      /\ UNCHANGED <<err, stderr, exitCode>>
                 ELSE Exit1("could not create athena temp bucket",
                            Error("s3", BucketResult(e)[1].code))
    /\ UNCHANGED <<athenaS3Path, ctxDone, tickReady, job, startId, qe, data, stdout>>
    /\ UNCHANGED <<sql, fetchResult>>

\* main: ioutil.ReadAll(os.Stdin), execTemplate, context.WithTimeout
ReadStdin ==
    /\ pc = "readStdin"
    /\ \/ /\ \E s \in Inputs : sql' = s
          /\ pc' = "start"
          /\ UNCHANGED <<err, stderr, exitCode>>
       \/ /\ Exit1("could not read query from STDIN", Error("stdin", "Read"))
          /\ UNCHANGED sql
    /\ UNCHANGED fetchResult
    /\ UNCHANGED <<athenaS3Path, bucketOwner, ctxDone, tickReady, trace, job,
                   startId, qe, data, stdout>>

----------------------------------------------------------------------------
(* executeQuery *)

\* executeQuery: athena.StartQueryExecutionWithContext is called
SubmitCall ==
    /\ pc = "start"
    /\ trace' = Append(trace, CallEv("athena", "Submit",
                                     [query |-> Query, out |-> athenaS3Path]))
    /\ pc' = "submitting"
    /\ UNCHANGED <<athenaS3Path, bucketOwner, ctxDone, tickReady, job, startId,
                   qe, err, data, stdout, stderr, exitCode>>
    /\ UNCHANGED <<sql, fetchResult>>

NewJob(id, loc) == [id |-> id, state |-> "QUEUED", reason |-> <<>>, loc |-> loc]

\* The executions the service may create for a submission.
NewJobs == { NewJob(id, loc) : id \in JobIds,
                               loc \in {<<l>> : l \in Locations} \cup {<<>>} }

\* The error executeQuery returns when StartQueryExecution fails with cause c.
SubmitError(c) == Error("could not start query execution", c)

\* Mutant: a failed submission is tried again.
SubmitFailedRetry(c) ==
    /\ pc' = "start"
    /\ UNCHANGED <<err, stderr, exitCode>>

\* executeQuery and main when StartQueryExecution fails with cause c.
SubmitFailed(c) == Exit1("could not execute athena query", SubmitError(c))

\* executeQuery: StartQueryExecutionWithContext returns; on success the
\* ticker is created and the loop is entered.
SubmitReturn ==
    /\ pc = "submitting"
    /\ \/ /\ ctxDone
          /\ trace' = Append(trace, RetEv("athena", "Submit", <<"RequestCanceled">>, ""))
          /\ SubmitFailed("RequestCanceled")
          \* the request may or may not have reached the service
          /\ \/ UNCHANGED job
             \/ \E j \in NewJobs : job' = <<j>>
          /\ UNCHANGED <<startId, tickReady>>
       \/ /\ ~ctxDone
          /\ trace' = Append(trace, RetEv("athena", "Submit", <<"InvalidRequest">>, ""))
          /\ SubmitFailed("InvalidRequest")
          /\ UNCHANGED <<job, startId, tickReady>>
       \/ /\ ~ctxDone
          /\ \E j \in NewJobs :
               /\ job' = <<j>>
               /\ startId' = <<j.id>>
               /\ trace' = Append(trace, RetEv("athena", "Submit", <<>>, j.id))
          /\ tickReady' = FALSE
          /\ pc' = "select"
          /\ UNCHANGED <<err, stderr, exitCode>>
    /\ UNCHANGED <<athenaS3Path, bucketOwner, ctxDone, qe, data, stdout>>
    /\ UNCHANGED <<sql, fetchResult>>

\* Mutant: on cancellation the execution is stopped on the service.
SelectDoneStopsJob ==
    /\ pc = "select"
    /\ ctxDone
    /\ trace' = Append(trace, CallEv("athena", "Stop", startId))
    /\ job' = IF job[1].state \in {"SUCCEEDED", "FAILED", "CANCELLED"}
              THEN job
              ELSE <<[job[1] EXCEPT !.state = "CANCELLED"]>>
    /\ Exit1("could not execute athena query", Error("query got cancelled", ""))
    /\ UNCHANGED <<athenaS3Path, bucketOwner, ctxDone, tickReady,
                   startId, qe, data, stdout>>
    /\ UNCHANGED <<sql, fetchResult>>

\* executeQuery: case <-ctx.Done()
SelectDone ==
    /\ pc = "select"
    /\ ctxDone
    /\ Exit1("could not execute athena query", Error("query got cancelled", ""))
    /\ UNCHANGED <<athenaS3Path, bucketOwner, ctxDone, tickReady, trace, job,
                   startId, qe, data, stdout>>
    /\ UNCHANGED <<sql, fetchResult>>

\* Mutant: the status is asked for a fixed identifier, not for the one the
\* submission returned.
SelectTickStaleId ==
    /\ pc = "select"
    /\ tickReady
    /\ NumCalls("GetStatus") < MaxPolls
    /\ tickReady' = FALSE
    /\ trace' = Append(trace, CallEv("athena", "GetStatus", <<"q1">>))
    /\ pc' = "polling"
    /\ UNCHANGED <<athenaS3Path, bucketOwner, ctxDone, job, startId, qe, err,
                   data, stdout, stderr, exitCode>>
    /\ UNCHANGED <<sql, fetchResult>>

\* Mutant: the loop polls without waiting for the ticker.
SelectTickNoWait ==
    /\ pc = "select"
    /\ NumCalls("GetStatus") < MaxPolls
    /\ trace' = Append(trace, CallEv("athena", "GetStatus", startId))
    /\ pc' = "polling"
    /\ UNCHANGED <<athenaS3Path, bucketOwner, ctxDone, tickReady, job, startId,
                   qe, err, data, stdout, stderr, exitCode>>
    /\ UNCHANGED <<sql, fetchResult>>

\* executeQuery: case <-t.C, athena.GetQueryExecutionWithContext is called.
\* When a tick is buffered and the context is done, select takes either case.
SelectTick ==
    /\ pc = "select"
    /\ tickReady
    /\ NumCalls("GetStatus") < MaxPolls
    /\ tickReady' = FALSE
    /\ trace' = Append(trace, CallEv("athena", "GetStatus", startId))
    /\ pc' = "polling"
    /\ UNCHANGED <<athenaS3Path, bucketOwner, ctxDone, job, startId, qe, err,
                   data, stdout, stderr, exitCode>>
    /\ UNCHANGED <<sql, fetchResult>>

\* The error executeQuery returns when GetQueryExecution fails with cause c.
StatusError(c) == Error("could not get query status", c)

\* Mutant: a failed status call is tried again on the next tick.
StatusFailedRetry(c) ==
    /\ pc' = "select"
    /\ UNCHANGED <<err, stderr, exitCode>>

\* executeQuery and main when GetQueryExecution fails with cause c.
StatusFailed(c) == Exit1("could not execute athena query", StatusError(c))

\* Mutant: the failure reason is left out of the error.
JobFailedNoReason(reason) == Error("athena query could not finish", "")

\* The error executeQuery returns for a FAILED or CANCELLED execution.
JobFailed(reason) == Error("athena query could not finish", reason)

\* Mutant: CANCELLED is not handled and falls to the default case.
DispatchCancelledContinues(q) ==
    CASE q.state = "FAILED" -> "fail"
      [] q.state = "SUCCEEDED" -> "succeed"
      [] OTHER -> "continue"

\* Mutant: only RUNNING and QUEUED keep the loop going.
DispatchUnknownFails(q) ==
    CASE q.state = "SUCCEEDED" -> "succeed"
      [] q.state \in {"RUNNING", "QUEUED"} -> "continue"
      [] OTHER -> "fail"

\* executeQuery: the switch on the state of the execution q
\* ("fail", "succeed" or "continue").
Dispatch(q) ==
    CASE q.state \in {"FAILED", "CANCELLED"} -> "fail"
      [] q.state = "SUCCEEDED" -> "succeed"
      [] OTHER -> "continue"

\* executeQuery: GetQueryExecutionWithContext returns
GetStatusReturn ==
    /\ pc = "polling"
    /\ \/ /\ ctxDone
          /\ trace' = Append(trace, RetEv("athena", "GetStatus", <<"RequestCanceled">>, ""))
          /\ StatusFailed("RequestCanceled")
          /\ UNCHANGED qe
       \/ /\ ~ctxDone
          /\ trace' = Append(trace, RetEv("athena", "GetStatus", <<"Transport">>, ""))
          /\ StatusFailed("Transport")
          /\ UNCHANGED qe
       \/ /\ ~ctxDone
          /\ trace' = Append(trace, RetEv("athena", "GetStatus", <<>>, job[1]))
          /\ qe' = job
          /\ CASE Dispatch(job[1]) = "fail" ->
                    IF job[1].reason = <<>>
                    THEN Panic
                    ELSE Exit1("could not execute athena query",
                               JobFailed(job[1].reason[1]))
               [] Dispatch(job[1]) = "succeed" ->
                    /\ pc' = "fetch"
                    /\ UNCHANGED <<err, stderr, exitCode>>
               [] OTHER ->
                    /\ pc' = "select"
                    /\ UNCHANGED <<err, stderr, exitCode>>
    /\ UNCHANGED <<athenaS3Path, bucketOwner, ctxDone, tickReady, job,
                   startId, data, stdout>>
    /\ UNCHANGED <<sql, fetchResult>>

----------------------------------------------------------------------------
(* getS3Contents *)

\* Mutant: the result is read from the output path that was submitted.
FetchLocationSubmitted == <<athenaS3Path>>

\* The location main hands to getS3Contents.
FetchLocation == qe[1].loc

\* main: *queryExecution.ResultConfiguration.OutputLocation,
\* getS3Contents: s3path.Parse, s3.GetObjectWithContext is called
FetchCall ==
    /\ pc = "fetch"
    /\ IF FetchLocation = <<>>
       THEN /\ Panic
            /\ UNCHANGED trace
       ELSE IF Parse(FetchLocation[1]) = <<>>
       THEN /\ Exit1("could not get s3 contents", Error("error parsing s3 URL", ""))
            /\ UNCHANGED trace
       ELSE /\ trace' = Append(trace, CallEv("s3", "Fetch", Parse(FetchLocation[1])[1]))
            /\ pc' = "fetching"
            /\ UNCHANGED <<err, stderr, exitCode>>
    /\ UNCHANGED <<athenaS3Path, bucketOwner, ctxDone, tickReady, job, startId,
                   qe, data, stdout>>
    /\ UNCHANGED <<sql, fetchResult>>

\* main: if len(data) > 0 { fmt.Print(string(data)) }
Printed(d) == IF d # "" THEN d ELSE ""

\* Mutant: the Fetch runs under context.Background() and outlives the deadline.
FetchReturnBackground ==
    /\ pc = "fetching"
    /\ \/ /\ \E e \in { Error("could not get result from", "NoSuchKey"),
                        Error("could not read result form s3", "Read") } :
               /\ trace' = Append(trace, RetEv("s3", "Fetch", <<e.cause>>, ""))
               /\ Exit1("could not get s3 contents", e)
          /\ UNCHANGED <<data, stdout>>
       \/ /\ \E d \in Datas :
               /\ trace' = Append(trace, RetEv("s3", "Fetch", <<>>, d))
               /\ data' = <<d>>
               /\ stdout' = Printed(d)
          /\ exitCode' = 0
          /\ pc' = "done"
          /\ UNCHANGED <<err, stderr>>
    /\ UNCHANGED <<athenaS3Path, bucketOwner, ctxDone, tickReady, job,
                   startId, qe>>
    /\ UNCHANGED <<sql, fetchResult>>

\* getS3Contents: GetObjectWithContext and ReadAll return; main prints
FetchReturn ==
    /\ pc = "fetching"
    /\ \/ /\ ctxDone
          /\ trace' = Append(trace, RetEv("s3", "Fetch", <<"RequestCanceled">>, ""))
          \* cancelled in GetObjectWithContext, or while the body is read
          /\ \E m \in {"could not get result from", "could not read result form s3"} :
               Exit1("could not get s3 contents", Error(m, "RequestCanceled"))
          /\ UNCHANGED <<data, stdout>>
       \/ /\ ~ctxDone
          /\ \E e \in { Error("could not get result from", "NoSuchKey"),
                        Error("could not read result form s3", "Read") } :
               /\ trace' = Append(trace, RetEv("s3", "Fetch", <<e.cause>>, ""))
               /\ Exit1("could not get s3 contents", e)
          /\ UNCHANGED <<data, stdout>>
       \/ /\ ~ctxDone
          /\ \E d \in Datas :
               /\ trace' = Append(trace, RetEv("s3", "Fetch", <<>>, d))
               /\ data' = <<d>>
               /\ stdout' = Printed(d)
          /\ exitCode' = 0
          /\ pc' = "done"
          /\ UNCHANGED <<err, stderr>>
    /\ UNCHANGED <<athenaS3Path, bucketOwner, ctxDone, tickReady, job,
                   startId, qe>>
    /\ UNCHANGED <<sql, fetchResult>>

----------------------------------------------------------------------------
(* Environment *)

\* time.NewTicker: a tick arrives in t.C (capacity one) while the loop runs
Tick ==
    /\ pc \in {"select", "polling"}
    /\ ~tickReady
    /\ tickReady' = TRUE
    /\ UNCHANGED <<pc, athenaS3Path, bucketOwner, ctxDone, trace, job, startId,
                   qe, err, data, stdout, stderr, exitCode>>
    /\ UNCHANGED <<sql, fetchResult>>

\* context.WithTimeout: the deadline fires
Deadline ==
    /\ pc \in {"start", "submitting", "select", "polling", "fetch", "fetching"}
    /\ ~ctxDone
    /\ ctxDone' = TRUE
    /\ trace' = Append(trace, DeadlineEv)
    /\ UNCHANGED <<pc, athenaS3Path, bucketOwner, tickReady, job, startId,
                   qe, err, data, stdout, stderr, exitCode>>
    /\ UNCHANGED <<sql, fetchResult>>

\* Athena: the execution advances on the service's side
ServiceStep ==
    /\ job # <<>>
    /\ job[1].state \in NonTerminal
    /\ \/ \E s \in NonTerminal \ {job[1].state, "QUEUED"} :
            job' = <<[job[1] EXCEPT !.state = s]>>
       \/ job' = <<[job[1] EXCEPT !.state = "SUCCEEDED"]>>
       \/ \E s \in {"FAILED", "CANCELLED"}, r \in {<<x>> : x \in Reasons} \cup {<<>>} :
            job' = <<[job[1] EXCEPT !.state = s, !.reason = r]>>
    /\ UNCHANGED <<pc, athenaS3Path, bucketOwner, ctxDone, tickReady, trace,
                   startId, qe, err, data, stdout, stderr, exitCode>>
    /\ UNCHANGED <<sql, fetchResult>>

----------------------------------------------------------------------------
Next ==
    \/ AccountID
    \/ CreateBucketIfNotExists
    \/ ReadStdin
    \/ SubmitCall
    \/ SubmitReturn
    \/ SelectDone
    \/ SelectTick
    \/ GetStatusReturn
    \/ FetchCall
    \/ FetchReturn
    \/ Tick
    \/ Deadline
    \/ ServiceStep

Spec == Init /\ [][Next]_vars

\* CreateBucketIfNotExists called again and again for the same path, by one
\* invocation of the program after the other: each starts at the call of
\* main.go:291 and the bucket stays as the call before left it.
EnsureInit ==
    /\ pc = "createBucket"
    /\ athenaS3Path \in Paths
    /\ bucketOwner \in {"none", "me", "other"}
    /\ ctxDone = FALSE
    /\ tickReady = FALSE
    /\ trace = <<>>
    /\ job = <<>>
    /\ startId = <<>>
    /\ qe = <<>>
    /\ err = <<>>
    /\ data = <<>>
    /\ stdout = ""
    /\ stderr = <<>>
    /\ exitCode = -1
    /\ sql = <<>>
    /\ fetchResult = TRUE

\* The next invocation arrives at its call of CreateBucketIfNotExists.
Reinvoke ==
    /\ pc \in {"readStdin", "done"}
    /\ NumCalls("CreateBucket") >= 1
    /\ NumCalls("CreateBucket") < MaxEnsures
    /\ pc' = "createBucket"
    /\ err' = <<>>
    /\ stderr' = <<>>
    /\ exitCode' = -1
    /\ UNCHANGED <<athenaS3Path, bucketOwner, ctxDone, tickReady, trace, job,
                   startId, qe, data, stdout, sql, fetchResult>>

EnsureNext ==
    \/ CreateBucketIfNotExists
    \/ Reinvoke

EnsureSpec == EnsureInit /\ [][EnsureNext]_vars

\* The steps of the program itself (not of its environment).
Program ==
    \/ AccountID
    \/ CreateBucketIfNotExists
    \/ ReadStdin
    \/ SubmitCall
    \/ SubmitReturn
    \/ SelectDone
    \/ SelectTick
    \/ GetStatusReturn
    \/ FetchCall
    \/ FetchReturn

\* The process keeps running and every remote call returns (weak fairness
\* of the program's steps), and the deadline of context.WithTimeout fires.
FairSpec == Spec /\ WF_vars(Program) /\ WF_vars(Deadline)

\* The program with the "fetch result or not" flag of the later version
\* (README usage: -dry, -out "-"): the caller chooses it before the run.
DryInit ==
    /\ pc = "accountID"
    /\ athenaS3Path \in Paths
    /\ bucketOwner \in {"none", "me", "other"}
    /\ ctxDone = FALSE
    /\ tickReady = FALSE
    /\ trace = <<>>
    /\ job = <<>>
    /\ startId = <<>>
    /\ qe = <<>>
    /\ err = <<>>
    /\ data = <<>>
    /\ stdout = ""
    /\ stderr = <<>>
    /\ exitCode = -1
    /\ sql = <<>>
    /\ fetchResult \in BOOLEAN

\* Output was requested: the result is fetched as main does.
DryFetchCall == fetchResult /\ FetchCall

\* Mutant: the flag is ignored and the result is fetched all the same.
SkipFetchFetches == ~fetchResult /\ FetchCall

\* No output was requested: the orchestrator returns with success as soon
\* as the job has succeeded, without touching the result location.
SkipFetch ==
    /\ pc = "fetch"
    /\ ~fetchResult
    /\ exitCode' = 0
    /\ pc' = "done"
    /\ UNCHANGED <<athenaS3Path, bucketOwner, ctxDone, tickReady, trace, job,
                   startId, qe, err, data, stdout, stderr>>
    /\ UNCHANGED <<sql, fetchResult>>

DryNext ==
    \/ AccountID
    \/ CreateBucketIfNotExists
    \/ ReadStdin
    \/ SubmitCall
    \/ SubmitReturn
    \/ SelectDone
    \/ SelectTick
    \/ GetStatusReturn
    \/ DryFetchCall
    \/ SkipFetch
    \/ FetchReturn
    \/ Tick
    \/ Deadline
    \/ ServiceStep

DrySpec == DryInit /\ [][DryNext]_vars

----------------------------------------------------------------------------
(* Properties *)

\* Return i of the trace is a GetQueryExecution response (not an error).
IsStatus(i) == IsRet(i, "GetStatus") /\ trace[i].err = <<>>

\* Return i is a GetQueryExecution response in one of the given states.
StatusIn(i, states) == IsStatus(i) /\ trace[i].out.state \in states

\* The place of the deadline in the trace, 0 when it has not fired.
DeadlineAt ==
    IF \E i \in 1..Len(trace) : trace[i].ev = "deadline"
    THEN CHOOSE i \in 1..Len(trace) : trace[i].ev = "deadline"
    ELSE 0

\* A terminal state was observed before place k of the trace.
TerminalBefore(k) == \E j \in 1..Len(trace) : j < k /\ StatusIn(j, Terminal)

Cancelled == Error("query got cancelled", "")

\* C1: once a GetStatus call has returned SUCCEEDED, FAILED or CANCELLED,
\* no GetStatus call is issued later in the run.
C1_NoPollAfterTerminal ==
    \A i, j \in 1..Len(trace) :
        (StatusIn(i, Terminal) /\ i < j) => ~IsCall(j, "GetStatus")

\* C1 witness: a terminal state was observed on a later poll and the run
\* went on (to the fetch, or to its end) after it.
C1_Witness ==
    /\ NumCalls("GetStatus") >= 2
    /\ \E i \in 1..Len(trace) : StatusIn(i, Terminal)
    /\ pc \in {"fetching", "done"}

\* C2: a GetStatus response in a state other than SUCCEEDED, FAILED and
\* CANCELLED, whatever the number of polls so far, returns neither success
\* nor an error: executeQuery is back at its select, nothing is printed and
\* the process has not exited.
C2_NonTerminalKeepsPolling ==
    [][ (Len(trace') = Len(trace) + 1 /\ StatusIn(Len(trace), NonTerminal)')
          => (pc' = "select" /\ err' = <<>> /\ stderr' = <<>>
              /\ exitCode' = -1 /\ NumCalls("Fetch")' = 0) ]_vars

\* C2 witness: the largest number of polls explored all answered with
\* non-terminal states, an unknown one among them, and the loop still waits.
C2_Witness ==
    /\ pc = "select"
    /\ Cardinality({ i \in 1..Len(trace) : StatusIn(i, NonTerminal) }) = MaxPolls
    /\ \E i \in 1..Len(trace) : StatusIn(i, {"PAUSED"})

\* C3 (as claimed): when the deadline fires before a terminal state was
\* observed, no GetStatus and no Fetch call is issued after it.
C3_NoCallAfterDeadline ==
    (DeadlineAt # 0 /\ ~TerminalBefore(DeadlineAt)) =>
        \A i \in 1..Len(trace) :
            i > DeadlineAt => ~(IsCall(i, "GetStatus") \/ IsCall(i, "Fetch"))

\* C4 (as claimed): when the deadline fires while executeQuery is polling,
\* waiting at the select or with a GetStatus call in flight, the error the
\* run ends with is "query got cancelled".
C4_DeadlineWhilePollingIsCancelled ==
    (pc = "done" /\ DeadlineAt # 0 /\ trace[DeadlineAt].at \in {"select", "polling"})
        => err = <<Cancelled>>

\* C5: after a GetStatus response FAILED or CANCELLED the process has exited
\* non-zero and no Fetch call was ever issued; when the response carries a
\* failure reason, main received the job-failure error embedding that
\* reason and printed it.
C5_JobFailure ==
    \A i \in 1..Len(trace) :
        StatusIn(i, {"FAILED", "CANCELLED"}) =>
            /\ pc = "done"
            /\ exitCode \notin {-1, 0}
            /\ NumCalls("Fetch") = 0
            /\ i = Len(trace)
            /\ trace[i].out.reason # <<>> =>
                  /\ err = <<Error("athena query could not finish",
                                   trace[i].out.reason[1])>>
                  /\ stderr = <<[prefix |-> "could not execute athena query",
                                 err |-> err[1]]>>
                  /\ exitCode = 1

\* C5 witness: a poll after the first answered FAILED with a reason.
C5_Witness ==
    /\ NumCalls("GetStatus") >= 2
    /\ \E i \in 1..Len(trace) :
          /\ StatusIn(i, {"FAILED"})
          /\ trace[i].out.reason = <<"SYNTAX_ERROR: line 1">>

\* C6: after a GetStatus response SUCCEEDED that carries a result location,
\* at most one Fetch is issued; once main has gone on to getS3Contents
\* exactly one was, for the bucket and key of the location in that response
\* (which is not the output path submitted); and when that Fetch returns
\* bytes, standard output holds exactly those bytes and the exit code is 0.
C6_FetchOnSuccess ==
    \A i \in 1..Len(trace) :
        (StatusIn(i, {"SUCCEEDED"}) /\ trace[i].out.loc # <<>>) =>
            /\ pc \in {"fetch", "fetching", "done"}
            /\ NumCalls("Fetch") = IF pc = "fetch" THEN 0 ELSE 1
            /\ \A c \in CallsOf("Fetch") :
                  /\ c = i + 1 \/ (c = i + 2 /\ DeadlineAt = i + 1)
                  /\ <<trace[c].arg>> = Parse(trace[i].out.loc[1])
                  /\ <<trace[c].arg>> # Parse(athenaS3Path)
            /\ \A r \in 1..Len(trace) :
                  (IsRet(r, "Fetch") /\ trace[r].err = <<>>) =>
                      /\ stdout = trace[r].out
                      /\ data = <<trace[r].out>>
                      /\ exitCode = 0
                      /\ stderr = <<>>

\* C6 witness: SUCCEEDED on the third poll, after two non-terminal answers,
\* and the fetched bytes are printed.
C6_Witness ==
    /\ NumCalls("GetStatus") = 3
    /\ \E r \in 1..Len(trace) :
          IsRet(r, "Fetch") /\ trace[r].err = <<>> /\ trace[r].out = "a,b\n1,2\n"
    /\ stdout = "a,b\n1,2\n"
    /\ exitCode = 0

\* Return i is the answer of s3.CreateBucket with the given error code.
BucketAnswer(i, code) ==
    /\ IsRet(i, "CreateBucket")
    /\ trace[i].err # <<>>
    /\ trace[i].err[1].code = code

\* main printed the error of CreateBucketIfNotExists and exited.
BucketAbort ==
    /\ pc = "done"
    /\ exitCode = 1
    /\ stderr # <<>>
    /\ stderr[1].prefix = "could not create athena temp bucket"
    /\ NumCalls("Submit") = 0

\* C7 (as claimed): when the store answers that the bucket exists and is
\* owned by someone else, the invocation aborts with the bucket error before
\* any query is submitted.
C7_ForeignBucketAborts ==
    \A i \in 1..Len(trace) : BucketAnswer(i, "BucketAlreadyExists") => BucketAbort

\* C7 (amended): both "already exists" answers of the store, owned by the
\* caller or by someone else, are a success of CreateBucketIfNotExists and
\* main goes on; any other error of the store, and a path that does not
\* parse, aborts the invocation before any query is submitted.
C7_BucketExistsIsSuccess ==
    /\ \A i \in 1..Len(trace) :
          /\ (BucketAnswer(i, "BucketAlreadyExists")
                \/ BucketAnswer(i, "BucketAlreadyOwnedByYou"))
               => (pc # "createBucket"
                   /\ (stderr # <<>> =>
                         stderr[1].prefix # "could not create athena temp bucket"))
          /\ (BucketAnswer(i, "AccessDenied") \/ BucketAnswer(i, "Transport"))
               => BucketAbort
    /\ (Parse(athenaS3Path) = <<>> /\ pc \notin {"accountID", "createBucket"})
          => (pc = "done" /\ exitCode = 1 /\ NumCalls("Submit") = 0)

\* C7 witness: the bucket belongs to someone else and the query was submitted.
C7_Witness ==
    /\ bucketOwner = "other"
    /\ \E i \in 1..Len(trace) : BucketAnswer(i, "BucketAlreadyExists")
    /\ NumCalls("Submit") = 1

\* C8: Submit is called at most once; when it fails, main received the
\* submission error and exited 1, and that return is the last call or
\* return of the run: no retry, no GetStatus, no Fetch.
C8_SubmitFailure ==
    /\ NumCalls("Submit") <= 1
    /\ \A i \in 1..Len(trace) :
          (IsRet(i, "Submit") /\ trace[i].err # <<>>) =>
              /\ pc = "done"
              /\ exitCode = 1
              /\ err = <<Error("could not start query execution", trace[i].err[1])>>
              /\ stderr = <<[prefix |-> "could not execute athena query", err |-> err[1]]>>
              /\ NumCalls("GetStatus") = 0
              /\ NumCalls("Fetch") = 0
              /\ i = Len(trace)

\* C8 witness: the service rejected the submission.
C8_Witness ==
    /\ \E i \in 1..Len(trace) :
          IsRet(i, "Submit") /\ trace[i].err = <<"InvalidRequest">>
    /\ pc = "done"

\* C9: when a GetStatus call fails, main received the status-query error,
\* which is not the job-failure error, and exited 1, and that return is the
\* last call or return of the run: no retry, no further GetStatus, no Fetch.
C9_StatusFailure ==
    \A i \in 1..Len(trace) :
        (IsRet(i, "GetStatus") /\ trace[i].err # <<>>) =>
            /\ pc = "done"
            /\ exitCode = 1
            /\ err = <<Error("could not get query status", trace[i].err[1])>>
            /\ err[1].msg # "athena query could not finish"
            /\ stderr = <<[prefix |-> "could not execute athena query", err |-> err[1]]>>
            /\ NumCalls("Fetch") = 0
            /\ i = Len(trace)

\* C9 witness: the second poll failed in transport before the deadline.
C9_Witness ==
    /\ NumCalls("GetStatus") = 2
    /\ \E i \in 1..Len(trace) :
          IsRet(i, "GetStatus") /\ trace[i].err = <<"Transport">>
    /\ ~ctxDone

\* C10: the only calls made to the query service are at most one Submit and
\* GetStatus calls; once main has received "query got cancelled" the
\* program makes no call at all, and no step of the program changes the
\* execution on the service, which only the service itself advances.
C10_NoRemoteCancel ==
    /\ [](/\ \A i \in 1..Len(trace) :
               (trace[i].ev = "call" /\ trace[i].svc = "athena")
                   => trace[i].op \in {"Submit", "GetStatus"}
          /\ NumCalls("Submit") <= 1)
    /\ [][ /\ (err = <<Cancelled>> \/ err' = <<Cancelled>>) => trace' = trace
           /\ (job # <<>> /\ job' # job) =>
                 (job[1].state \in NonTerminal /\ pc' = pc /\ trace' = trace) ]_vars

\* C10 witness: main has returned "query got cancelled" after polling and
\* the execution is still RUNNING on the service.
C10_Witness ==
    /\ err = <<Cancelled>>
    /\ pc = "done"
    /\ NumCalls("GetStatus") >= 1
    /\ job[1].state = "RUNNING"

\* Return i is a failed call of the lifecycle, or a status response that
\* reports the job FAILED or CANCELLED.
LifecycleError(i) ==
    \/ /\ trace[i].ev = "ret"
       /\ trace[i].op \in {"Submit", "GetStatus", "Fetch"}
       /\ trace[i].err # <<>>
    \/ StatusIn(i, {"FAILED", "CANCELLED"})

\* Submit was accepted, SUCCEEDED was observed and the Fetch succeeded.
AllSucceeded ==
    /\ \E i \in 1..Len(trace) : IsRet(i, "Submit") /\ trace[i].err = <<>>
    /\ \E i \in 1..Len(trace) : StatusIn(i, {"SUCCEEDED"})
    /\ \E i \in 1..Len(trace) : IsRet(i, "Fetch") /\ trace[i].err = <<>>

\* C11: the exit code is 0 exactly when Submit was accepted, SUCCEEDED was
\* observed and the Fetch succeeded; a failed call of the lifecycle or a
\* FAILED/CANCELLED response is the last event of the run and the process
\* has exited non-zero with something on standard error; whenever main
\* received an error (cancellation included) it printed that error and
\* exited 1; and once the process has exited no call is made.
C11_ExitCode ==
    /\ [](/\ exitCode = 0 <=> AllSucceeded
          /\ exitCode = 0 => (pc = "done" /\ stderr = <<>>)
          /\ \A i \in 1..Len(trace) :
                LifecycleError(i) =>
                    /\ i = Len(trace)
                    /\ pc = "done"
                    /\ exitCode \notin {-1, 0}
                    /\ stderr # <<>>
          /\ err # <<>> =>
                /\ pc = "done"
                /\ exitCode = 1
                /\ stderr # <<>>
                /\ stderr[1].err = err[1]
                /\ stdout = "")
    /\ [][exitCode # -1 => (trace' = trace /\ exitCode' = exitCode)]_vars

\* C11 witness: SUCCEEDED was observed, the Fetch failed and the process
\* exited 1.
C11_Witness ==
    /\ \E i \in 1..Len(trace) : StatusIn(i, {"SUCCEEDED"})
    /\ \E i \in 1..Len(trace) : IsRet(i, "Fetch") /\ trace[i].err = <<"NoSuchKey">>
    /\ exitCode = 1
    /\ stderr # <<>>

\* C12: the one deadline governs Submit, GetStatus and Fetch alike: each of
\* them that returns after the deadline fired returns the cancellation
\* error.  When the deadline fires after SUCCEEDED was observed and before
\* the Fetch has returned, the run ends with nothing on standard output, a
\* non-zero exit code and an error on standard error, the Fetch was issued
\* at most once, and if it was issued it was cancelled.
C12_DeadlineGovernsFetch ==
    /\ \A i \in 1..Len(trace) :
          (/\ DeadlineAt # 0
           /\ i > DeadlineAt
           /\ trace[i].ev = "ret"
           /\ trace[i].op \in {"Submit", "GetStatus", "Fetch"})
             => trace[i].err = <<"RequestCanceled">>
    /\ (/\ pc = "done"
        /\ DeadlineAt # 0
        /\ trace[DeadlineAt].at \in {"fetch", "fetching"})
          => /\ stdout = ""
             /\ data = <<>>
             /\ exitCode \notin {-1, 0}
             /\ stderr # <<>>
             /\ NumCalls("Fetch") <= 1
             /\ NumCalls("Fetch") = 1 =>
                   /\ exitCode = 1
                   /\ err # <<>>
                   /\ err[1].cause = "RequestCanceled"
                   /\ err[1].msg \in {"could not get result from",
                                      "could not read result form s3"}
                   /\ stderr = <<[prefix |-> "could not get s3 contents",
                                  err |-> err[1]]>>
                   /\ IsRet(Len(trace), "Fetch")

\* C12 witness: the deadline fired while the Fetch was in flight and the
\* run has ended.
C12_Witness ==
    /\ pc = "done"
    /\ DeadlineAt # 0
    /\ trace[DeadlineAt].at = "fetching"
    /\ \E i \in 1..Len(trace) : StatusIn(i, {"SUCCEEDED"})

\* The outcomes executeQuery has returned with: "success" (a SUCCEEDED
\* response, returned with a nil error) and the message of the error it
\* returned, if it is one of its four errors.
ExecuteQueryOutcomes ==
    (IF \E i \in 1..Len(trace) : StatusIn(i, {"SUCCEEDED"})
     THEN {"success"} ELSE {})
    \cup
    (IF err # <<>> /\ err[1].msg \in {"could not start query execution",
                                       "query got cancelled",
                                       "could not get query status",
                                       "athena query could not finish"}
     THEN {err[1].msg} ELSE {})

\* C13 (as claimed): once the query is being submitted, executeQuery
\* eventually returns with exactly one of the outcomes success, job
\* failure, status-query error, submission error or cancelled.
C13_Terminates ==
    (NumCalls("Submit") > 0) ~> (Cardinality(ExecuteQueryOutcomes) = 1)

\* What does hold under FairSpec: the process always comes to its end, by a
\* return of main, by os.Exit or by a panic.
ProcessEnds == <>(pc = "done")

\* The answers of s3.CreateBucket that say nothing about the bucket.
TransientAnswers == {<<AwsErr("AccessDenied")>>, <<[aws |-> FALSE, code |-> "Transport"]>>}

\* C14: a call of CreateBucketIfNotExists that the store answers with
\* "created" or "already owned by you" succeeds and leaves the bucket owned
\* by the caller; and once the bucket is owned by the caller (as after a
\* first successful call), every further call for the same path that the
\* store answers gets "already owned by you", succeeds without error and
\* leaves the bucket as it was.
C14_EnsureIdempotent ==
    [][ (Len(trace') = Len(trace) + 2 /\ IsRet(Len(trace), "CreateBucket")') =>
          LET a == trace'[Len(trace')].err IN
          /\ a \in {<<>>, <<AwsErr("BucketAlreadyOwnedByYou")>>} =>
                /\ pc' = "readStdin"
                /\ err' = <<>> /\ stderr' = <<>> /\ exitCode' = -1
                /\ bucketOwner' = "me"
          /\ (bucketOwner = "me" /\ a \notin TransientAnswers) =>
                /\ a = <<AwsErr("BucketAlreadyOwnedByYou")>>
                /\ bucketOwner' = bucketOwner ]_vars

\* C14 witness: the first call created the bucket, the second call for the
\* same path found it owned by the caller, and both succeeded.
C14_Witness ==
    /\ Len(trace) = 4
    /\ IsRet(2, "CreateBucket") /\ trace[2].err = <<>>
    /\ IsRet(4, "CreateBucket") /\ trace[4].err = <<AwsErr("BucketAlreadyOwnedByYou")>>
    /\ trace[1].arg = trace[3].arg
    /\ pc = "readStdin"
    /\ err = <<>>
    /\ bucketOwner = "me"

InFlight(k) ==
    Cardinality({ i \in 1..k : trace[i].ev = "call" })
      - Cardinality({ i \in 1..k : trace[i].ev = "ret" })

\* C17: at every moment at most one remote call is in flight and every
\* return answers the call issued last; a GetStatus call is issued only
\* after a Submit has returned successfully, a Fetch call only after a
\* GetStatus has returned SUCCEEDED; and the step that issues a GetStatus
\* call takes a tick of the ticker.
C17_SequentialCalls ==
    /\ [](/\ \A k \in 1..Len(trace) : InFlight(k) \in {0, 1}
          /\ \A i \in 1..Len(trace) :
                trace[i].ev = "ret" =>
                    \E c \in 1..(i - 1) :
                        /\ trace[c].ev = "call"
                        /\ trace[c].op = trace[i].op
                        /\ \A k \in (c + 1)..(i - 1) : trace[k].ev = "deadline"
          /\ \A i \in CallsOf("GetStatus") :
                \E j \in 1..(i - 1) : IsRet(j, "Submit") /\ trace[j].err = <<>>
          /\ \A i \in CallsOf("Fetch") :
                \E j \in 1..(i - 1) : StatusIn(j, {"SUCCEEDED"}))
    /\ [][NumCalls("GetStatus")' > NumCalls("GetStatus") =>
              (tickReady /\ ~tickReady')]_vars

\* C17 witness: two GetStatus calls and a Fetch call were issued in one
\* lifecycle, and the Fetch is in flight.
C17_Witness ==
    /\ NumCalls("GetStatus") >= 2
    /\ NumCalls("Fetch") = 1
    /\ InFlight(Len(trace)) = 1
    /\ pc = "fetching"

\* The identifiers of the successful Submit returns in the trace.
SubmittedIds ==
    { trace[j].out : j \in { i \in 1..Len(trace) :
                               IsRet(i, "Submit") /\ trace[i].err = <<>> } }

\* C18: every GetStatus call carries the identifier its Submit returned,
\* which is the one main holds; once set the identifier never changes; and
\* the execution main holds changes only in the step that records a
\* GetStatus response, to that response.
C18_JobIdFixed ==
    /\ [](/\ Cardinality(SubmittedIds) <= 1
          /\ startId # <<>> => SubmittedIds = {startId[1]}
          /\ \A i \in CallsOf("GetStatus") :
                /\ trace[i].arg # <<>>
                /\ SubmittedIds = {trace[i].arg[1]}
          /\ qe # <<>> => SubmittedIds = {qe[1].id})
    /\ [][/\ startId # <<>> => startId' = startId
          /\ qe' # qe =>
                /\ Len(trace') = Len(trace) + 1
                /\ StatusIn(Len(trace), Terminal \cup NonTerminal)'
                /\ qe' = <<trace'[Len(trace')].out>>]_vars

\* C18 witness: the service named the execution q2, and two GetStatus calls
\* were issued for it.
C18_Witness ==
    /\ startId = <<"q2">>
    /\ Cardinality({ i \in CallsOf("GetStatus") : trace[i].arg = <<"q2">> }) = 2
    /\ qe # <<>>

\* C19: every terminal response ends in a defined outcome: the process
\* never crashes (status 2 of a Go panic), a FAILED or CANCELLED response
\* ends the run with the job-failure error whether or not it carries a
\* reason, and a SUCCEEDED response without a result location ends it with
\* an error or a result.
C19_AbsentFieldsHandled ==
    /\ exitCode # 2
    /\ \A i \in 1..Len(trace) :
          StatusIn(i, {"FAILED", "CANCELLED"}) =>
              /\ err # <<>>
              /\ err[1].msg = "athena query could not finish"
    /\ \A i \in 1..Len(trace) :
          (StatusIn(i, {"SUCCEEDED"}) /\ trace[i].out.loc = <<>> /\ pc = "done") =>
              (err # <<>> \/ data # <<>>)

====
